---- MODULE Spec2Model ----
(***************************************************************************)
(* State-machine model of MazeRunnerComponent                              *)
(* (src/components/maze-runner.tsx): the grid build effect, the BFS        *)
(* solver, the timed replay of a solved path and the manual cursor.        *)
(*                                                                         *)
(* Strings are sequences of one-character strings, so that "" is <<>> and  *)
(* concatenation, length and split are computed as the code computes them. *)
(* Coordinates are 0-based as in the code; TLA+ sequences are 1-based, so  *)
(* mazeGrid[y][x] of the code is mazeGrid[y + 1][x + 1] here.              *)
(***************************************************************************)
EXTENDS Integers, Sequences, FiniteSets, TLC

VARIABLES
  maze,           \* string[]: the lines of the text box
  mazeGrid,       \* Cell[][]
  start,          \* Cell | null
  end,            \* Cell | null
  currentPos,     \* Cell | null: the cursor
  wallSymbol,     \* string
  startSymbol,    \* string
  endSymbol,      \* string
  moveKeys,       \* { up, down, left, right }: strings
  isAnimating,    \* boolean
  solutionMoves,  \* string
  replays,        \* the suspended animatePath calls, in the order their timers expire
  alertOpen,      \* the modal alert('No path found!') is on screen
  lastResult      \* what the handler that ran last did: for solveMaze "refused",
                  \* "found", "nopath" or "threw"; for handleKeyPress "moved" when
                  \* it set the cursor; "none" otherwise

vars == <<maze, mazeGrid, start, end, currentPos, wallSymbol, startSymbol,
          endSymbol, moveKeys, isAnimating, solutionMoves, replays, alertOpen,
          lastResult>>

----------------------------------------------------------------------------
(* Bounds of the model. *)

\* At most this many animatePath calls are suspended at once.
MaxReplays == 2

\* The longest text the solver-only specification starts from.
MaxTextLen == 5

\* At most this many of the seven symbol and move-key fields hold a value
\* other than the one the page starts with.
MaxEdited == 1

----------------------------------------------------------------------------
(* JavaScript values that are not cells. *)

NullCell == [x |-> -1, y |-> -1, type |-> "null"]
UndefinedCell == [x |-> -1, y |-> -1, type |-> "undefined"]
\* Reading a property of undefined: the handler ends with an uncaught TypeError.
TypeErrorCell == [x |-> -1, y |-> -1, type |-> "TypeError"]

\* The truthiness tests `!start`, `newCell &&`, `nextCell &&`, `currentPos &&`.
Truthy(c) == c.type \notin {"null", "undefined", "TypeError"}

Direction == {"up", "down", "left", "right"}

----------------------------------------------------------------------------
(* Strings. *)

LowerChar(c) ==
  CASE c = "W" -> "w"
    [] c = "S" -> "s"
    [] c = "A" -> "a"
    [] c = "D" -> "d"
    [] c = "P" -> "p"
    [] c = "E" -> "e"
    [] OTHER -> c

toLowerCase(s) == [i \in 1..Len(s) |-> LowerChar(s[i])]

\* The index of the first "\n" of s, 0 when it has none.
FirstNewline(s) ==
  IF \E i \in 1..Len(s) : s[i] = "\n"
  THEN CHOOSE i \in 1..Len(s) : s[i] = "\n" /\ \A j \in 1..(i - 1) : s[j] # "\n"
  ELSE 0

RECURSIVE split(_)
\* value.split('\n'): "" splits to [""], never to [].
split(s) ==
  IF FirstNewline(s) = 0 THEN <<s>>
  ELSE <<SubSeq(s, 1, FirstNewline(s) - 1)>> \o split(SubSeq(s, FirstNewline(s) + 1, Len(s)))

RECURSIVE join(_)
\* moves.join(''): the concatenation of the strings of moves.
join(moves) == IF moves = <<>> THEN <<>> ELSE Head(moves) \o join(Tail(moves))

----------------------------------------------------------------------------
(* The grid build effect. *)

cellType(ch, wall, st, en) ==
  IF <<ch>> = wall THEN "wall"
  ELSE IF <<ch>> = st THEN "start"
  ELSE IF <<ch>> = en THEN "end"
  ELSE "path"

buildGrid(m, wall, st, en) ==
  [y \in 1..Len(m) |->
     [x \in 1..Len(m[y]) |->
        [x |-> x - 1, y |-> y - 1, type |-> cellType(m[y][x], wall, st, en)]]]

RECURSIVE flat(_)
flat(grid) == IF grid = <<>> THEN <<>> ELSE Head(grid) \o flat(Tail(grid))

\* Mutant of find: the last match is taken.
find_last(cells, t) ==
  IF \E i \in 1..Len(cells) : cells[i].type = t
  THEN cells[CHOOSE i \in 1..Len(cells) :
                /\ cells[i].type = t
                /\ \A j \in (i + 1)..Len(cells) : cells[j].type # t]
  ELSE NullCell

\* cells.find(cell => cell.type === t) || null
find(cells, t) ==
  IF \E i \in 1..Len(cells) : cells[i].type = t
  THEN cells[CHOOSE i \in 1..Len(cells) :
                /\ cells[i].type = t
                /\ \A j \in 1..(i - 1) : cells[j].type # t]
  ELSE NullCell

\* Mutant of gridEffect: the symbols of the previous render are used.
gridEffect_staleSymbols(m, wall, st, en) ==
  IF Len(m) > 0
  THEN /\ mazeGrid' = buildGrid(m, wallSymbol, startSymbol, endSymbol)
       /\ start' = find(flat(buildGrid(m, wallSymbol, startSymbol, endSymbol)), "start")
       /\ end' = find(flat(buildGrid(m, wallSymbol, startSymbol, endSymbol)), "end")
  ELSE UNCHANGED <<mazeGrid, start, end>>

\* The effect that runs after maze or a symbol changed, with their new values.
gridEffect(m, wall, st, en) ==
  IF Len(m) > 0
  THEN /\ mazeGrid' = buildGrid(m, wall, st, en)
       /\ start' = find(flat(buildGrid(m, wall, st, en)), "start")
       /\ end' = find(flat(buildGrid(m, wall, st, en)), "end")
  ELSE UNCHANGED <<mazeGrid, start, end>>

----------------------------------------------------------------------------
(* Neighbour lookup and key lookup. *)

\* g[y][x] of the code: undefined past the end of a row, a TypeError when the
\* row itself is undefined.
at(g, y, x) ==
  IF (y + 1) \notin DOMAIN g THEN TypeErrorCell
  ELSE IF (x + 1) \in DOMAIN g[y + 1] THEN g[y + 1][x + 1]
  ELSE UndefinedCell

\* Mutant of getNextCell: a right move is bounded by the length of the row
\* the cell is in.
getNextCell_ownRowBound(cell, direction) ==
  CASE direction = "up" ->
         IF cell.y > 0 THEN at(mazeGrid, cell.y - 1, cell.x) ELSE NullCell
    [] direction = "down" ->
         IF cell.y < Len(mazeGrid) - 1 THEN at(mazeGrid, cell.y + 1, cell.x) ELSE NullCell
    [] direction = "left" ->
         IF cell.x > 0 THEN at(mazeGrid, cell.y, cell.x - 1) ELSE NullCell
    [] direction = "right" ->
         IF (cell.y + 1) \notin DOMAIN mazeGrid THEN TypeErrorCell
         ELSE IF cell.x < Len(mazeGrid[cell.y + 1]) - 1
              THEN at(mazeGrid, cell.y, cell.x + 1)
         ELSE NullCell

\* getNextCell (lines 49-61).
getNextCell(cell, direction) ==
  CASE direction = "up" ->
         IF cell.y > 0 THEN at(mazeGrid, cell.y - 1, cell.x) ELSE NullCell
    [] direction = "down" ->
         IF cell.y < Len(mazeGrid) - 1 THEN at(mazeGrid, cell.y + 1, cell.x) ELSE NullCell
    [] direction = "left" ->
         IF cell.x > 0 THEN at(mazeGrid, cell.y, cell.x - 1) ELSE NullCell
    [] direction = "right" ->
         IF mazeGrid = <<>> THEN TypeErrorCell
         ELSE IF cell.x < Len(mazeGrid[1]) - 1 THEN at(mazeGrid, cell.y, cell.x + 1)
         ELSE NullCell

getKeyForDirection(direction) == moveKeys[direction]

----------------------------------------------------------------------------
(* solveMaze: the breadth-first search. *)

\* Mutant of directions: right is tried before down.
directions_rightBeforeDown == <<"up", "right", "down", "left">>

\* const directions: Direction[] = ['up', 'down', 'left', 'right']
directions == <<"up", "down", "left", "right">>

\* visited: one false per character of maze.
visitedInit == [y \in 1..Len(maze) |-> [x \in 1..Len(maze[y]) |-> FALSE]]

\* The initial queue: [{ cell: start, path: [start], moves: [] }]
queueInit == <<[cell |-> start, path |-> <<start>>, moves |-> <<>>]>>

\* Mutant of canEnqueue: the wall test is forgotten.
canEnqueue_noWallTest(newCell, visited) ==
  /\ Truthy(newCell)
  /\ ~visited[newCell.y + 1][newCell.x + 1]

\* The test of line 99.
canEnqueue(newCell, visited) ==
  /\ Truthy(newCell)
  /\ ~visited[newCell.y + 1][newCell.x + 1]
  /\ newCell.type # "wall"

\* Mutant of pushed: the path is extended by the cell left, not the cell entered.
pushed_cellLeft(entry, newCell, direction) ==
  [cell |-> newCell,
   path |-> Append(entry.path, entry.cell),
   moves |-> Append(entry.moves, getKeyForDirection(direction))]

\* The entry pushed at lines 101-105.
pushed(entry, newCell, direction) ==
  [cell |-> newCell,
   path |-> Append(entry.path, newCell),
   moves |-> Append(entry.moves, getKeyForDirection(direction))]

RECURSIVE explore(_, _, _, _)
\* The for loop of lines 97-107 over the directions still to try.
explore(entry, dirs, queue, visited) ==
  IF dirs = <<>> THEN [queue |-> queue, visited |-> visited, threw |-> FALSE]
  ELSE LET newCell == getNextCell(entry.cell, Head(dirs))
       IN IF newCell = TypeErrorCell
          THEN [queue |-> queue, visited |-> visited, threw |-> TRUE]
          ELSE IF canEnqueue(newCell, visited)
          THEN explore(entry, Tail(dirs),
                       Append(queue, pushed(entry, newCell, Head(dirs))),
                       [visited EXCEPT ![newCell.y + 1][newCell.x + 1] = TRUE])
          ELSE explore(entry, Tail(dirs), queue, visited)

\* Mutant of atEnd: only the column is compared.
atEnd_columnOnly(cell) == cell.x = end.x

\* The test of line 90.
atEnd(cell) == cell.x = end.x /\ cell.y = end.y

\* The cells of the entries that explore appended to the queue it was given,
\* which held n entries.
cellsPushed(queue, n) == [k \in 1..(Len(queue) - n) |-> queue[n + k].cell]

RECURSIVE bfs(_, _, _)
\* The while loop of lines 87-108, exploring the neighbours in `order`.
\* kind: "found" (lines 90-93), "nopath" (line 110), "threw" (a TypeError).
\* expanded: the cells dequeued and explored, in order; enqueued: the cells
\* pushed at line 101, in order.
bfs(queue, visited, order) ==
  IF queue = <<>>
  THEN [kind |-> "nopath", path |-> <<>>, moves |-> <<>>,
        expanded |-> <<>>, enqueued |-> <<>>]
  ELSE IF ~Truthy(Head(queue).cell) \/ ~Truthy(end)
  THEN [kind |-> "threw", path |-> <<>>, moves |-> <<>>,
        expanded |-> <<>>, enqueued |-> <<>>]
  ELSE IF atEnd(Head(queue).cell)
  THEN [kind |-> "found", path |-> Head(queue).path, moves |-> Head(queue).moves,
        expanded |-> <<>>, enqueued |-> <<>>]
  ELSE LET r == explore(Head(queue), order, Tail(queue), visited)
       IN IF r.threw
          THEN [kind |-> "threw", path |-> <<>>, moves |-> <<>>,
                expanded |-> <<Head(queue).cell>>,
                enqueued |-> cellsPushed(r.queue, Len(queue) - 1)]
          ELSE LET rest == bfs(r.queue, r.visited, order)
               IN [rest EXCEPT
                     !.expanded = <<Head(queue).cell>> \o @,
                     !.enqueued = cellsPushed(r.queue, Len(queue) - 1) \o @]

\* Mutant of endpointMissing: the click is refused only when both are absent.
endpointMissing_both == ~Truthy(start) /\ ~Truthy(end)

\* The guard of line 82.
endpointMissing == ~Truthy(start) \/ ~Truthy(end)

\* What one click on the solve button computes in the current state.
solveOutcome ==
  IF endpointMissing
  THEN [kind |-> "refused", path |-> <<>>, moves |-> <<>>,
        expanded |-> <<>>, enqueued |-> <<>>]
  ELSE bfs(queueInit, visitedInit, directions)

----------------------------------------------------------------------------
(* The inputs the environment offers. *)

\* Texts typed into the maze text box.
Texts ==
  { <<"P", ".", "E">>,
    <<"P", "#", "E">>,
    <<"P", ".", "\n", ".", "E">>,
    <<"\n", "P", "E">>,
    <<"P", ".">>,
    <<>> }

\* Values typed into a symbol field (maxLength 1).
SymbolInputs == { <<"#">>, <<".">> }

\* Values typed into a move-key field (maxLength 1).
KeyInputs == { <<>>, <<"W">> }

\* event.key of a key press on the maze container.
KeyEvents == { <<"S">>, <<"d">>, <<"x">> }

\* Every text of at most n characters over the alphabet of the default symbols.
TextsUpTo(n) ==
  UNION { [1..k -> {"#", ".", "P", "E", "\n"}] : k \in 0..n }

----------------------------------------------------------------------------
(* The state after construction (the useState initialisers, lines 20-33). *)

Init ==
  /\ maze = <<>>
  /\ mazeGrid = <<>>
  /\ start = NullCell
  /\ end = NullCell
  /\ currentPos = NullCell
  /\ wallSymbol = <<"#">>
  /\ startSymbol = <<"P">>
  /\ endSymbol = <<"E">>
  /\ moveKeys = [up |-> <<"w">>, down |-> <<"s">>, left |-> <<"a">>, right |-> <<"d">>]
  /\ isAnimating = FALSE
  /\ solutionMoves = <<>>
  /\ replays = <<>>
  /\ alertOpen = FALSE
  /\ lastResult = "none"

\* The number of symbol and move-key fields that differ from their initial value.
edited(wall, st, en, keys) ==
  Cardinality({f \in {"wall", "start", "end", "up", "down", "left", "right"} :
     CASE f = "wall" -> wall # <<"#">>
       [] f = "start" -> st # <<"P">>
       [] f = "end" -> en # <<"E">>
       [] f = "up" -> keys.up # <<"w">>
       [] f = "down" -> keys.down # <<"s">>
       [] f = "left" -> keys.left # <<"a">>
       [] f = "right" -> keys.right # <<"d">>})

----------------------------------------------------------------------------
(* The handlers.  A modal alert blocks the page's event loop, so no handler *)
(* and no timer runs while it is open.                                      *)

\* Mutant of handleMazeInput: the build puts the cursor on Start.
handleMazeInput_cursorToStart(text) ==
  /\ ~alertOpen
  /\ maze' = split(text)
  /\ gridEffect(split(text), wallSymbol, startSymbol, endSymbol)
  /\ currentPos' = start'
  /\ lastResult' = "none"
  /\ UNCHANGED <<wallSymbol, startSymbol, endSymbol, moveKeys,
                 isAnimating, solutionMoves, replays, alertOpen>>

\* handleMazeInput (lines 137-139) and the grid build effect it triggers.
handleMazeInput(text) ==
  /\ ~alertOpen
  /\ maze' = split(text)
  /\ gridEffect(split(text), wallSymbol, startSymbol, endSymbol)
  /\ lastResult' = "none"
  /\ UNCHANGED <<currentPos, wallSymbol, startSymbol, endSymbol, moveKeys,
                 isAnimating, solutionMoves, replays, alertOpen>>

\* The onChange of the wall symbol field (line 186) and the effect.
setWallSymbol(v) ==
  /\ ~alertOpen
  /\ wallSymbol' = v
  /\ gridEffect(maze, v, startSymbol, endSymbol)
  /\ lastResult' = "none"
  /\ UNCHANGED <<maze, currentPos, startSymbol, endSymbol, moveKeys,
                 isAnimating, solutionMoves, replays, alertOpen>>

\* The onChange of the start symbol field (line 210) and the effect.
setStartSymbol(v) ==
  /\ ~alertOpen
  /\ startSymbol' = v
  /\ gridEffect(maze, wallSymbol, v, endSymbol)
  /\ lastResult' = "none"
  /\ UNCHANGED <<maze, currentPos, wallSymbol, endSymbol, moveKeys,
                 isAnimating, solutionMoves, replays, alertOpen>>

\* The onChange of the end symbol field (line 222) and the effect.
setEndSymbol(v) ==
  /\ ~alertOpen
  /\ endSymbol' = v
  /\ gridEffect(maze, wallSymbol, startSymbol, v)
  /\ lastResult' = "none"
  /\ UNCHANGED <<maze, currentPos, wallSymbol, startSymbol, moveKeys,
                 isAnimating, solutionMoves, replays, alertOpen>>

\* The onChange of a move-key field (line 294).
setMoveKeys(direction, v) ==
  /\ ~alertOpen
  /\ moveKeys' = [moveKeys EXCEPT ![direction] = toLowerCase(v)]
  /\ lastResult' = "none"
  /\ UNCHANGED <<maze, mazeGrid, start, end, currentPos, wallSymbol, startSymbol,
                 endSymbol, isAnimating, solutionMoves, replays, alertOpen>>

\* animatePath up to its first await (lines 73-76): the first cell is applied
\* at once and the call is suspended on a 50 ms timer.
animatePath(path) ==
  /\ isAnimating' = TRUE
  /\ currentPos' = path[1]
  /\ replays' = Append(replays, [path |-> path, i |-> 1])

\* solveMaze (lines 81-111), the onClick of the solve button (line 226).
solveMaze ==
  /\ ~alertOpen
  /\ LET r == solveOutcome
     IN /\ lastResult' = r.kind
        /\ IF r.kind = "found"
           THEN /\ Len(replays) < MaxReplays
                /\ animatePath(r.path)
                /\ solutionMoves' = join(r.moves)
                /\ UNCHANGED alertOpen
           ELSE /\ alertOpen' = (r.kind = "nopath")
                /\ UNCHANGED <<currentPos, isAnimating, solutionMoves, replays>>
  /\ UNCHANGED <<maze, mazeGrid, start, end, wallSymbol, startSymbol, endSymbol,
                 moveKeys>>

\* The user closes the alert of line 110.
dismissAlert ==
  /\ alertOpen
  /\ alertOpen' = FALSE
  /\ lastResult' = "none"
  /\ UNCHANGED <<maze, mazeGrid, start, end, currentPos, wallSymbol, startSymbol,
                 endSymbol, moveKeys, isAnimating, solutionMoves, replays>>

\* Mutant of animateStep: a replay whose next cell is no longer a cell of the
\* grid is cancelled.
animateStep_cancelsStale ==
  /\ ~alertOpen
  /\ replays # <<>>
  /\ IF /\ Head(replays).i < Len(Head(replays).path)
        /\ \E y \in DOMAIN mazeGrid : \E x \in DOMAIN mazeGrid[y] :
             mazeGrid[y][x] = Head(replays).path[Head(replays).i + 1]
     THEN /\ currentPos' = Head(replays).path[Head(replays).i + 1]
          /\ replays' = Append(Tail(replays),
                               [Head(replays) EXCEPT !.i = Head(replays).i + 1])
          /\ UNCHANGED isAnimating
     ELSE /\ isAnimating' = FALSE
          /\ replays' = Tail(replays)
          /\ UNCHANGED currentPos
  /\ lastResult' = "none"
  /\ UNCHANGED <<maze, mazeGrid, start, end, wallSymbol, startSymbol, endSymbol,
                 moveKeys, solutionMoves, alertOpen>>

\* A 50 ms timer of animatePath expires and the loop resumes (lines 74-78).
\* Every timer has the same delay, so they expire in the order they were set:
\* the call at the head of replays resumes, and when it sets its next timer
\* it goes behind the calls already waiting.
animateStep ==
  /\ ~alertOpen
  /\ replays # <<>>
  /\ IF Head(replays).i < Len(Head(replays).path)
     THEN /\ currentPos' = Head(replays).path[Head(replays).i + 1]
          /\ replays' = Append(Tail(replays),
                               [Head(replays) EXCEPT !.i = Head(replays).i + 1])
          /\ UNCHANGED isAnimating
     ELSE /\ isAnimating' = FALSE
          /\ replays' = Tail(replays)
          /\ UNCHANGED currentPos
  /\ lastResult' = "none"
  /\ UNCHANGED <<maze, mazeGrid, start, end, wallSymbol, startSymbol, endSymbol,
                 moveKeys, solutionMoves, alertOpen>>

\* The direction chosen at lines 147-150 for the lower-cased key.
directionOf(key) ==
  IF key = moveKeys.up THEN "up"
  ELSE IF key = moveKeys.down THEN "down"
  ELSE IF key = moveKeys.left THEN "left"
  ELSE IF key = moveKeys.right THEN "right"
  ELSE "none"

\* Mutant of canStep: the wall test is forgotten.
canStep_noWallTest(nextCell) == Truthy(nextCell)

\* The test of line 154.
canStep(nextCell) == Truthy(nextCell) /\ nextCell.type # "wall"

\* The cursor after handleKeyPress (lines 141-158) ran for event.key = key.
\* A TypeError in getNextCell ends the handler with the state as it was.
\* pos is the cursor the handler reads.
movedFrom(pos, key) ==
  IF isAnimating THEN pos
  ELSE LET direction == directionOf(toLowerCase(key))
       IN IF direction # "none" /\ Truthy(pos)
          THEN LET nextCell == getNextCell(pos, direction)
               IN IF canStep(nextCell) THEN nextCell ELSE pos
          ELSE pos

movedCursor(key) == movedFrom(currentPos, key)

\* handleKeyPress, from onKeyDown (line 234).
handleKeyPress(key) ==
  /\ ~alertOpen
  /\ currentPos' = movedCursor(key)
  /\ lastResult' = IF movedCursor(key) # currentPos THEN "moved" ELSE "none"
  /\ UNCHANGED <<maze, mazeGrid, start, end, wallSymbol, startSymbol, endSymbol,
                 moveKeys, isAnimating, solutionMoves, replays, alertOpen>>

\* A click on an arrow button (lines 302-313): handleKeyPress({ key: moveKeys[d] }).
clickArrow(direction) == handleKeyPress(moveKeys[direction])

----------------------------------------------------------------------------
(* The specifications. *)

Next ==
  \/ \E text \in Texts : handleMazeInput(text)
  \/ \E v \in SymbolInputs :
       edited(v, startSymbol, endSymbol, moveKeys) <= MaxEdited /\ setWallSymbol(v)
  \/ \E v \in SymbolInputs :
       edited(wallSymbol, v, endSymbol, moveKeys) <= MaxEdited /\ setStartSymbol(v)
  \/ \E v \in SymbolInputs :
       edited(wallSymbol, startSymbol, v, moveKeys) <= MaxEdited /\ setEndSymbol(v)
  \/ \E d \in Direction, v \in KeyInputs :
       /\ edited(wallSymbol, startSymbol, endSymbol,
                 [moveKeys EXCEPT ![d] = toLowerCase(v)]) <= MaxEdited
       /\ setMoveKeys(d, v)
  \/ solveMaze
  \/ dismissAlert
  \/ animateStep
  \/ \E key \in KeyEvents : handleKeyPress(key)
  \/ \E d \in Direction : clickArrow(d)

Spec == Init /\ [][Next]_vars

\* The solver alone: the state after one text was typed into a fresh page,
\* then only solve clicks, replays and the alert.
SolveInit ==
  \E text \in TextsUpTo(MaxTextLen) :
    /\ maze = split(text)
    /\ mazeGrid = buildGrid(split(text), <<"#">>, <<"P">>, <<"E">>)
    /\ start = find(flat(buildGrid(split(text), <<"#">>, <<"P">>, <<"E">>)), "start")
    /\ end = find(flat(buildGrid(split(text), <<"#">>, <<"P">>, <<"E">>)), "end")
    /\ currentPos = NullCell
    /\ wallSymbol = <<"#">>
    /\ startSymbol = <<"P">>
    /\ endSymbol = <<"E">>
    /\ moveKeys = [up |-> <<"w">>, down |-> <<"s">>, left |-> <<"a">>, right |-> <<"d">>]
    /\ isAnimating = FALSE
    /\ solutionMoves = <<>>
    /\ replays = <<>>
    /\ alertOpen = FALSE
    /\ lastResult = "none"

\* The page with its default symbols: every handler but the symbol fields'.
CursorNext ==
  \/ \E text \in Texts : handleMazeInput(text)
  \/ \E d \in Direction, v \in KeyInputs :
       /\ edited(wallSymbol, startSymbol, endSymbol,
                 [moveKeys EXCEPT ![d] = toLowerCase(v)]) <= MaxEdited
       /\ setMoveKeys(d, v)
  \/ solveMaze
  \/ dismissAlert
  \/ animateStep
  \/ \E key \in KeyEvents : handleKeyPress(key)
  \/ \E d \in Direction : clickArrow(d)

CursorSpec == Init /\ [][CursorNext]_vars

\* The page with its default move keys: every handler but the move-key fields'.
BuildNext ==
  \/ \E text \in Texts : handleMazeInput(text)
  \/ \E v \in SymbolInputs :
       edited(v, startSymbol, endSymbol, moveKeys) <= MaxEdited /\ setWallSymbol(v)
  \/ \E v \in SymbolInputs :
       edited(wallSymbol, v, endSymbol, moveKeys) <= MaxEdited /\ setStartSymbol(v)
  \/ \E v \in SymbolInputs :
       edited(wallSymbol, startSymbol, v, moveKeys) <= MaxEdited /\ setEndSymbol(v)
  \/ solveMaze
  \/ dismissAlert
  \/ animateStep
  \/ \E key \in KeyEvents : handleKeyPress(key)
  \/ \E d \in Direction : clickArrow(d)

BuildSpec == Init /\ [][BuildNext]_vars

\* Solving and replaying while the text, the wall symbol and the end symbol
\* are edited.
FairNext ==
  \/ \E text \in Texts : handleMazeInput(text)
  \/ \E v \in SymbolInputs :
       edited(v, startSymbol, endSymbol, moveKeys) <= MaxEdited /\ setWallSymbol(v)
  \/ \E v \in SymbolInputs :
       edited(wallSymbol, startSymbol, v, moveKeys) <= MaxEdited /\ setEndSymbol(v)
  \/ solveMaze
  \/ dismissAlert
  \/ animateStep

\* A timer that has expired runs its callback as soon as no handler runs and
\* no alert is open: a replay step that is enabled again and again is taken.
\* The alert blocks every timer until the user closes it, which the user is
\* taken to do.
FairSpec ==
  /\ Init
  /\ [][FairNext]_vars
  /\ SF_vars(animateStep)
  /\ WF_vars(dismissAlert)

\* The maze of the worked example: a walled 2 by 2 room, Start top left and
\* End bottom right.
ScenarioText ==
  <<"#", "#", "#", "\n", "#", "P", ".", "\n", "#", ".", "E", "\n", "#", "#", "#">>

\* The page on which only that maze is ever typed; the symbols stay as they
\* are, so no solve ends in the alert.
ScenarioNext ==
  \/ handleMazeInput(ScenarioText)
  \/ \E d \in Direction, v \in KeyInputs :
       /\ edited(wallSymbol, startSymbol, endSymbol,
                 [moveKeys EXCEPT ![d] = toLowerCase(v)]) <= MaxEdited
       /\ setMoveKeys(d, v)
  \/ solveMaze
  \/ animateStep
  \/ \E key \in KeyEvents : handleKeyPress(key)
  \/ \E d \in Direction : clickArrow(d)

ScenarioSpec == Init /\ [][ScenarioNext]_vars

SolveNext == solveMaze \/ dismissAlert \/ animateStep

SolveSpec == SolveInit /\ [][SolveNext]_vars

----------------------------------------------------------------------------
(* Reference notions the properties are stated with, independent of the     *)
(* solver: the graph of the non-wall cells of the grid and its distances.   *)

\* The cells of the current grid.
GridCells == UNION { { mazeGrid[y][x] : x \in DOMAIN mazeGrid[y] } : y \in DOMAIN mazeGrid }

OpenCells == { c \in GridCells : c.type # "wall" }

Abs(n) == IF n < 0 THEN -n ELSE n

\* 4-directional adjacency: the cells differ by exactly one in exactly one coordinate.
Adjacent(a, b) == Abs(a.x - b.x) + Abs(a.y - b.y) = 1

RECURSIVE LevelOf(_, _, _, _)
\* The number of the first level of the level-by-level sweep from `frontier`
\* that holds `target`, -1 when the sweep ends without it.
LevelOf(target, frontier, seen, d) ==
  IF target \in frontier THEN d
  ELSE IF frontier = {} THEN -1
  ELSE LET next == { c \in OpenCells \ seen : \E f \in frontier : Adjacent(f, c) }
       IN LevelOf(target, next, seen \cup next, d + 1)

\* The graph distance from Start to End over the non-wall cells, -1 if none.
RefDistance == LevelOf(end, {start}, {start}, 0)

\* The 24 orders in which the four directions can be explored.
Orders == { o \in [1..4 -> Direction] : \A i, j \in 1..4 : o[i] = o[j] => i = j }

\* The direction that leads from cell a to the adjacent cell b.
DirectionBetween(a, b) ==
  IF b.y = a.y - 1 THEN "up"
  ELSE IF b.y = a.y + 1 THEN "down"
  ELSE IF b.x = a.x - 1 THEN "left"
  ELSE "right"

\* The call of animatePath that was suspended last.
NewestReplay == replays[Len(replays)]

\* The last handler was solveMaze.
Solved == lastResult \in {"refused", "found", "nopath", "threw"}


----------------------------------------------------------------------------
(* C1 *)

\* C1: whenever End is reachable from Start over the non-wall cells of the
\* grid, a solve click finds a path whose number of steps is the graph
\* distance from Start to End, and so does the search under every order of
\* the four directions.
C1_ShortestPath ==
  (Solved /\ Truthy(start) /\ Truthy(end) /\ RefDistance >= 0) =>
     /\ lastResult = "found"
     /\ Len(NewestReplay.path) - 1 = RefDistance
     /\ \A o \in Orders :
          /\ bfs(queueInit, visitedInit, o).kind = "found"
          /\ Len(bfs(queueInit, visitedInit, o).path) - 1 = RefDistance

\* The same on the grids whose first row is at least as long as every other
\* row (every rectangular grid is one).
FirstRowLongest == \A y \in DOMAIN maze : Len(maze[y]) <= Len(maze[1])

ShortestPathFirstRowLongest ==
  (Solved /\ Truthy(start) /\ Truthy(end) /\ RefDistance >= 0 /\ FirstRowLongest) =>
     /\ lastResult = "found"
     /\ Len(NewestReplay.path) - 1 = RefDistance
     /\ \A o \in Orders :
          /\ bfs(queueInit, visitedInit, o).kind = "found"
          /\ Len(bfs(queueInit, visitedInit, o).path) - 1 = RefDistance

----------------------------------------------------------------------------
(* C2 *)

\* C2: a key event that changes the cursor puts it on a non-wall cell of the
\* current grid that is 4-adjacent to the old position, and only while no
\* replay is animating; every other key event leaves the cursor unchanged.
\* (The steps that change the cursor and leave replays alone are the key
\* events: a solve click and a timer both change replays.)
C2_ManualMoveSafe ==
  [][(currentPos' # currentPos /\ replays' = replays) =>
       /\ lastResult' = "moved"
       /\ ~isAnimating
       /\ Truthy(currentPos)
       /\ currentPos' \in GridCells
       /\ currentPos'.type # "wall"
       /\ Adjacent(currentPos, currentPos')]_vars

\* A key event has moved the cursor.
C2_Witness == lastResult = "moved"

----------------------------------------------------------------------------
(* C3 *)

\* The step in which the call at the head of replays finds its path
\* exhausted and sets isAnimating to false.
ReplayFinishes ==
  /\ replays # <<>>
  /\ Head(replays).i = Len(Head(replays).path)
  /\ replays' = Tail(replays)

\* C3: when a replay finishes, the cursor is at the End its path leads to.
C3_ReplayEndsAtEnd ==
  [][ReplayFinishes =>
       LET p == Head(replays).path
       IN currentPos'.x = p[Len(p)].x /\ currentPos'.y = p[Len(p)].y]_vars

----------------------------------------------------------------------------
(* C4 *)

\* C4: while a replay is in progress no key event changes the cursor.
C4_NoManualMoveDuringReplay ==
  [][(replays # <<>> /\ replays' = replays) => currentPos' = currentPos]_vars

----------------------------------------------------------------------------
(* C5 *)

\* C5: at most one replay is in flight in every reachable state.
C5_OneReplayAtATime == Len(replays) <= 1

----------------------------------------------------------------------------
(* C6 *)

\* C6: a solve click on a grid that has Start and End with End unreachable
\* from Start ends in the no-path notice and changes nothing else.
C6_NoPathFound ==
  [][(Solved' /\ Truthy(start) /\ Truthy(end) /\ RefDistance < 0) =>
       /\ lastResult' = "nopath"
       /\ alertOpen'
       /\ UNCHANGED <<maze, mazeGrid, start, end, currentPos, wallSymbol,
                      startSymbol, endSymbol, moveKeys, isAnimating,
                      solutionMoves, replays>>]_vars

\* The notice is shown for a grid that has both endpoints.
C6_Witness ==
  lastResult = "nopath" /\ alertOpen /\ Truthy(start) /\ Truthy(end) /\ RefDistance < 0

----------------------------------------------------------------------------
(* C7 *)

\* C7: a solve click while Start or End is absent is refused: the search
\* does not run and nothing changes.
C7_MissingEndpointRefused ==
  [][(Solved' /\ (~Truthy(start) \/ ~Truthy(end))) =>
       /\ lastResult' = "refused"
       /\ UNCHANGED <<maze, mazeGrid, start, end, currentPos, wallSymbol,
                      startSymbol, endSymbol, moveKeys, isAnimating,
                      solutionMoves, replays, alertOpen>>]_vars

\* A solve click was refused on a grid that has a Start and no End.
C7_Witness == lastResult = "refused" /\ Truthy(start) /\ ~Truthy(end)

----------------------------------------------------------------------------
(* C8 *)

\* C8: from the start of a replay to its end the cursor takes exactly the
\* cells of its path, in order: the cursor is the cell the replay applied last.
C8_ReplayInPathOrder ==
  \A k \in DOMAIN replays : currentPos = replays[k].path[replays[k].i]

----------------------------------------------------------------------------
(* C9 *)

\* C9: the move string of a successful solve has one character per step of
\* the path, the i-th being the key bound to the direction of step i.
C9_MoveStringPerStep ==
  lastResult = "found" =>
    LET p == NewestReplay.path
    IN /\ Len(solutionMoves) = Len(p) - 1
       /\ \A i \in 1..(Len(p) - 1) :
            i \in DOMAIN solutionMoves
            /\ <<solutionMoves[i]>> = moveKeys[DirectionBetween(p[i], p[i + 1])]

----------------------------------------------------------------------------
(* C10 *)

\* C10: the path of a successful solve starts at Start, ends on End's
\* coordinates, holds only non-wall cells of the grid, and each two
\* consecutive cells are 4-adjacent.
C10_PathIsValidWalk ==
  lastResult = "found" =>
    LET p == NewestReplay.path
    IN /\ p[1] = start
       /\ p[Len(p)].x = end.x /\ p[Len(p)].y = end.y
       /\ \A i \in DOMAIN p : p[i] \in GridCells /\ p[i].type # "wall"
       /\ \A i \in 1..(Len(p) - 1) : Adjacent(p[i], p[i + 1])

\* A solve returned a path of at least two steps that turns a corner.
C10_Witness ==
  /\ lastResult = "found"
  /\ Len(NewestReplay.path) >= 3
  /\ NewestReplay.path[1].x # NewestReplay.path[Len(NewestReplay.path)].x
  /\ NewestReplay.path[1].y # NewestReplay.path[Len(NewestReplay.path)].y

----------------------------------------------------------------------------
(* C11 *)

\* The kind the current symbols give a character: wall before start before
\* end, anything else is a path cell.
KindOf(ch) ==
  CASE <<ch>> = wallSymbol -> "wall"
    [] <<ch>> # wallSymbol /\ <<ch>> = startSymbol -> "start"
    [] <<ch>> # wallSymbol /\ <<ch>> # startSymbol /\ <<ch>> = endSymbol -> "end"
    [] OTHER -> "path"

\* C11: in every state a handler can read, the grid has one row per line of
\* the current text and one cell per character, each cell carrying its own
\* coordinates and the kind the current symbols give its character.
C11_GridIsFullRebuild ==
  /\ DOMAIN mazeGrid = DOMAIN maze
  /\ \A y \in DOMAIN maze :
       /\ DOMAIN mazeGrid[y] = DOMAIN maze[y]
       /\ \A x \in DOMAIN maze[y] :
            mazeGrid[y][x] = [x |-> x - 1, y |-> y - 1, type |-> KindOf(maze[y][x])]

\* A solve found a path on a grid in which an edited symbol gave some
\* character another kind than the default symbols give it.
C11_Witness ==
  /\ lastResult = "found"
  /\ \E y \in DOMAIN mazeGrid : \E x \in DOMAIN mazeGrid[y] :
       mazeGrid[y][x].type # cellType(maze[y][x], <<"#">>, <<"P">>, <<"E">>)

----------------------------------------------------------------------------
(* C12 *)

\* a comes before b in row-major order.
RowMajorBefore(a, b) == a.y < b.y \/ (a.y = b.y /\ a.x < b.x)

\* c is the first cell of kind t of the grid in row-major order, or the
\* null value when the grid has no cell of kind t.
FirstOfKind(c, t) ==
  IF \E g \in GridCells : g.type = t
  THEN /\ c \in GridCells
       /\ c.type = t
       /\ \A g \in GridCells : g.type = t /\ g # c => RowMajorBefore(c, g)
  ELSE c = NullCell

\* C12: once a grid was built, Start is the first cell of kind start in
\* row-major order and End the first cell of kind end, each absent when the
\* grid has no such cell.
C12_FirstRowMajor ==
  maze # <<>> => FirstOfKind(start, "start") /\ FirstOfKind(end, "end")

\* The grid holds two cells of kind start and a Start is designated.
C12_Witness ==
  /\ \E a, b \in GridCells : a # b /\ a.type = "start" /\ b.type = "start"
  /\ Truthy(start)

----------------------------------------------------------------------------
(* C13 *)

\* The cells a solve of the grid in this state puts on its queue, in order:
\* Start at line 85, then the pushes of line 101.
EnqueueLog == <<start>> \o solveOutcome.enqueued

\* The number of times cell c occurs in sequence log.
Occurrences(log, c) == Cardinality({i \in DOMAIN log : log[i] = c})

\* C13: during one solve no cell, Start included, is enqueued more than
\* once, and no cell is expanded more than once.
C13_EnqueuedOnce ==
  lastResult \in {"found", "nopath"} =>
    /\ \A c \in GridCells : Occurrences(EnqueueLog, c) <= 1
    /\ \A c \in GridCells : Occurrences(solveOutcome.expanded, c) <= 1

\* What the search does guarantee: every cell but Start is enqueued and
\* expanded at most once, Start at most twice.
EnqueuedOnceExceptStart ==
  lastResult \in {"found", "nopath"} =>
    \A c \in GridCells :
      /\ Occurrences(EnqueueLog, c) <= (IF c = start THEN 2 ELSE 1)
      /\ Occurrences(solveOutcome.expanded, c) <= (IF c = start THEN 2 ELSE 1)

----------------------------------------------------------------------------
(* C14 *)

\* The lines of the worked example.
ScenarioRows ==
  << <<"#", "#", "#">>, <<"#", "P", ".">>, <<"#", ".", "E">>, <<"#", "#", "#">> >>

DefaultKeys ==
  [up |-> <<"w">>, down |-> <<"s">>, left |-> <<"a">>, right |-> <<"d">>]

\* C14: on the worked example with the default symbols, Start is (1,1) and
\* End is (2,2); with the default keys a solve returns the path (1,1), (1,2),
\* (2,2) and the move string "sd" (down is tried before right); and the solves
\* of one grid all return the same path.
C14_WorkedExample ==
  maze = ScenarioRows =>
    /\ start = [x |-> 1, y |-> 1, type |-> "start"]
    /\ end = [x |-> 2, y |-> 2, type |-> "end"]
    /\ lastResult = "found" =>
         NewestReplay.path = << [x |-> 1, y |-> 1, type |-> "start"],
                                [x |-> 1, y |-> 2, type |-> "path"],
                                [x |-> 2, y |-> 2, type |-> "end"] >>
    /\ lastResult = "found" /\ moveKeys = DefaultKeys =>
         solutionMoves = <<"s", "d">>
    /\ \A i, j \in DOMAIN replays : replays[i].path = replays[j].path

\* A second solve of the worked example returned while the replay of the
\* first was still running, the keys being the default ones.
C14_Witness ==
  /\ maze = ScenarioRows
  /\ lastResult = "found"
  /\ moveKeys = DefaultKeys
  /\ Len(replays) = 2

----------------------------------------------------------------------------
(* C15 *)

\* The last cell of the path of a replay.
LastOf(replay) == replay.path[Len(replay.path)]

\* Replay r is in flight after the step, where it was or one cell further.
Continues(r) ==
  \E j \in DOMAIN replays' :
    /\ replays'[j].path = r.path
    /\ \/ replays'[j].i = r.i
       \/ replays'[j].i = r.i + 1 /\ currentPos' = r.path[r.i + 1]

\* No step takes a replay away before its last cell was applied: a replay in
\* flight stays in flight, applying the cells of its own path one by one, and
\* it leaves only after its last cell, setting isAnimating to false.
NoReplayCancelled ==
  \A k \in DOMAIN replays :
    \/ Continues(replays[k])
    \/ replays[k].i = Len(replays[k].path) /\ isAnimating' = FALSE

\* The cells a replay can end on.
EndCells == {[x |-> x, y |-> y, type |-> "end"] : x \in 0..2, y \in 0..1}

\* Some replay towards c is in flight and has not applied c yet.
InFlightTo(c) ==
  \E k \in DOMAIN replays :
    LastOf(replays[k]) = c /\ replays[k].i < Len(replays[k].path)

\* A replay towards c has just applied c, its last cell.
AppliedLast(c) ==
  /\ currentPos = c
  /\ \E k \in DOMAIN replays :
       LastOf(replays[k]) = c /\ replays[k].i = Len(replays[k].path)

\* C15: no replay is cancelled, whatever is edited meanwhile; under fair
\* scheduling of the replay steps every replay in flight applies its last
\* cell, and isAnimating, once true, becomes false again.
C15_ReplayRunsToCompletion ==
  /\ [][NoReplayCancelled]_vars
  /\ \A c \in EndCells : InFlightTo(c) ~> AppliedLast(c)
  /\ isAnimating ~> ~isAnimating

\* A replay has applied its last cell although the text or a symbol was
\* edited while it ran: that cell is not a cell of the grid any more.
C15_Witness ==
  /\ \E c \in EndCells : AppliedLast(c)
  /\ currentPos \notin GridCells

----------------------------------------------------------------------------
(* C16 *)

\* C16: a solve of a grid that has a Start and an End ends after at most
\* one dequeue per cell and one more for Start, in one of two ways.  Found:
\* the entry dequeued last is on End's coordinates, its path and moves are
\* what the solve returns, and no cell on End's coordinates was expanded.
\* No path: every entry that was enqueued was dequeued and expanded, and the
\* alert is shown.
C16_SearchTerminates ==
  Solved /\ Truthy(start) /\ Truthy(end) =>
    LET r == solveOutcome
    IN /\ lastResult = r.kind
       /\ r.kind \in {"found", "nopath"}
       /\ Len(r.expanded) <= Cardinality(GridCells) + 1
       /\ r.kind = "found" =>
            /\ NewestReplay.path = r.path
            /\ Len(r.moves) = Len(r.path) - 1
            /\ r.path[Len(r.path)].x = end.x
            /\ r.path[Len(r.path)].y = end.y
            /\ \A i \in DOMAIN r.expanded :
                 r.expanded[i].x # end.x \/ r.expanded[i].y # end.y
            /\ Len(EnqueueLog) > Len(r.expanded)
       /\ r.kind = "nopath" =>
            /\ Len(EnqueueLog) = Len(r.expanded)
            /\ alertOpen

\* A solve found End after expanding at least three cells.
C16_Witness ==
  /\ lastResult = "found"
  /\ Len(solveOutcome.expanded) >= 3

\* A solve emptied its queue after expanding at least three cells.
C16_WitnessNoPath ==
  /\ lastResult = "nopath"
  /\ Len(solveOutcome.expanded) >= 3

----------------------------------------------------------------------------
(* C17 *)

\* The step is a replay step: a replay in flight after the step stands on
\* the cell the cursor was given.
ReplayStepSetCursor ==
  /\ replays' # replays
  /\ \E k \in DOMAIN replays' : replays'[k].path[replays'[k].i] = currentPos'

\* The step is an accepted manual move: outside a replay, to a cell of the
\* grid that is not a wall and is next to the cursor.
ManualMoveSetCursor ==
  /\ lastResult' = "moved"
  /\ replays' = replays
  /\ ~isAnimating
  /\ currentPos' \in GridCells
  /\ currentPos'.type # "wall"
  /\ Adjacent(currentPos, currentPos')

\* The step built the grid anew or changed what it is built from.
GridTouched ==
  \/ maze' # maze
  \/ mazeGrid' # mazeGrid
  \/ <<start, end>>' # <<start, end>>
  \/ <<wallSymbol, startSymbol, endSymbol>>' # <<wallSymbol, startSymbol, endSymbol>>

\* C17: the cursor is unset on the fresh page and stays unset until the
\* first successful solve, whatever grid is built; a step that builds the
\* grid leaves the cursor as it is; the cursor changes only in a replay step
\* of a solve or in an accepted manual move.
C17_CursorOnlyByReplayOrMove ==
  /\ currentPos = NullCell
  /\ [](solutionMoves = <<>> => currentPos = NullCell)
  /\ [][GridTouched => currentPos' = currentPos]_vars
  /\ [][currentPos' # currentPos =>
          ReplayStepSetCursor \/ ManualMoveSetCursor]_vars

\* A grid was built whose Start is not its first cell, and the cursor is
\* still unset.
C17_Witness ==
  /\ Truthy(start)
  /\ start # [x |-> 0, y |-> 0, type |-> "start"]
  /\ currentPos = NullCell

\* The cursor stands on a cell that a rebuild removed from the grid.
CursorOutlivesGrid ==
  /\ Truthy(currentPos)
  /\ currentPos \notin GridCells
  /\ replays = <<>>

----------------------------------------------------------------------------
(* C18 *)

\* length(row 0) of the grid.
FirstRowLength == Len(mazeGrid[1])

\* A right move from a cell is looked up only when the cell's column is
\* below length(row 0) - 1, whatever the length of the cell's own row.
RightBoundIsFirstRow ==
  \A c \in GridCells :
    IF c.x < FirstRowLength - 1
    THEN getNextCell(c, "right") = at(mazeGrid, c.y, c.x + 1)
    ELSE getNextCell(c, "right") = NullCell

\* No lookup from a cell of the grid fails, and a lookup that lands past the
\* end of a shorter row yields no cell, which neither the solve nor a manual
\* move steps on.
PastRowEndIsBlocked ==
  /\ lastResult # "threw"
  /\ \A c \in GridCells : \A d \in Direction :
       LET n == getNextCell(c, d)
       IN /\ n # TypeErrorCell
          /\ n \in GridCells \/ n = NullCell \/ n = UndefinedCell
          /\ n = UndefinedCell => ~canStep(n) /\ ~canEnqueue(n, visitedInit)

\* C18 as stated: the right bound is the first row's length, so neither the
\* path of a solve nor a manual move from a cell of the grid enters a cell
\* in a column >= length(row 0), and a lookup past the end of a shorter row
\* is blocked without failing.
C18_NoCellBeyondFirstRow ==
  /\ RightBoundIsFirstRow
  /\ lastResult = "found" =>
       \A i \in 2..Len(NewestReplay.path) : NewestReplay.path[i].x < FirstRowLength
  /\ \A c \in GridCells : \A d \in Direction :
       canStep(getNextCell(c, d)) => getNextCell(c, d).x < FirstRowLength
  /\ PastRowEndIsBlocked

\* C18 amended: the right bound is the first row's length, so neither the
\* path of a solve nor a manual move from a cell of the grid enters a cell
\* in a column >= length(row 0) by a move to the right (moves up, down and
\* left do enter such cells), and a lookup past the end of a shorter row is
\* blocked without failing.
C18_NoRightMoveBeyondFirstRow ==
  /\ RightBoundIsFirstRow
  /\ lastResult = "found" =>
       \A i \in 2..Len(NewestReplay.path) :
         NewestReplay.path[i].x = NewestReplay.path[i - 1].x + 1 =>
           NewestReplay.path[i].x < FirstRowLength
  /\ \A c \in GridCells :
       canStep(getNextCell(c, "right")) => getNextCell(c, "right").x < FirstRowLength
  /\ PastRowEndIsBlocked

\* A solve returned a path that enters a column >= length(row 0), and some
\* lookup in the grid lands past the end of a shorter row.
C18_Witness ==
  /\ lastResult = "found"
  /\ \E i \in 2..Len(NewestReplay.path) : NewestReplay.path[i].x >= FirstRowLength
  /\ \E c \in GridCells : \E d \in Direction : getNextCell(c, d) = UndefinedCell

\* An accepted manual move to the right ends in a column below length(row 0).
RightManualMoveBounded ==
  [][lastResult' = "moved" /\ currentPos'.x = currentPos.x + 1 =>
       currentPos'.x < FirstRowLength]_vars

----------------------------------------------------------------------------
(* C19 *)

RECURSIVE Walk(_, _)
\* The cells the cursor stands on, from pos on, while the characters of keys
\* are given to handleKeyPress one by one.
Walk(pos, keys) ==
  IF keys = <<>> THEN <<pos>>
  ELSE <<pos>> \o Walk(movedFrom(pos, <<Head(keys)>>), Tail(keys))

\* No two directions are bound to the same key.
KeysPairwiseDistinct ==
  \A d, e \in Direction : d # e => moveKeys[d] # moveKeys[e]

\* C19: with pairwise distinct key bindings and no replay in progress, the
\* keys of the move string of a solve of the grid, pressed one by one with
\* the cursor on Start, take the cursor through exactly the cells of the
\* solve path: one accepted move per path step, ending on End's coordinates.
C19_RoundTrip ==
  KeysPairwiseDistinct /\ replays = <<>> /\ ~isAnimating /\ ~alertOpen
    /\ solveOutcome.kind = "found" =>
    LET r == solveOutcome
        walk == Walk(start, join(r.moves))
    IN /\ walk = r.path
       /\ walk[Len(walk)].x = end.x
       /\ walk[Len(walk)].y = end.y

\* The same with every direction bound to a key.
RoundTripBoundKeys ==
  (\A d \in Direction : moveKeys[d] # <<>>) => C19_RoundTrip

\* The round trip is made on a path of at least two steps.
RoundTripReached ==
  /\ KeysPairwiseDistinct /\ replays = <<>> /\ ~isAnimating /\ ~alertOpen
  /\ \A d \in Direction : moveKeys[d] # <<>>
  /\ solveOutcome.kind = "found"
  /\ Len(solveOutcome.path) >= 3

====
